---- MODULE Spec2Model ----
(***************************************************************************)
(* Expense-report review state machine of kdnye/EXPENSES.                  *)
(*                                                                         *)
(* Four specifications share this module:                                  *)
(*   ApplySpec     the service function apply_line_review_decisions        *)
(*                 applied, once or twice, to one in-memory report and     *)
(*                 one decision sequence;                                  *)
(*   ExportSpec    format_pending_reports_csv applied to one batch;        *)
(*   Spec          the persisted reports under the request handlers        *)
(*                 new_expense, review_report (supervisor and admin) and   *)
(*                 dispatch_pending_uploads, each handler one step;        *)
(*   DispatchSpec  concurrent dispatch_pending_uploads requests, stepped   *)
(*                 through dispatch_csv_via_sftp.                          *)
(*                                                                         *)
(* Python str values that the code trims, lower-cases or tests for         *)
(* emptiness are sequences of one-character strings, so that strip() and   *)
(* lower() are computed; None is <<>> and a present value v is <<v>>.      *)
(***************************************************************************)
EXTENDS Integers, Sequences, FiniteSets, TLC

VARIABLES
    reports,     \* committed expense_reports rows with their expense_lines
    obj,         \* the report object handed to apply_line_review_decisions
    decisions,   \* the decisions argument of that call
    before,      \* obj as it was when the call started
    outcome,     \* what the call did: raised or returned (message, category)
    pc,          \* "idle" | "ready" (call not yet made) | "done" | "twice"
    export_in,   \* the reports argument of format_pending_reports_csv
    export_out,  \* None, or the payload it returned (a sequence of rows)
    config,      \* current_app.config: the NETSUITE_SFTP_* settings
    disp,        \* the dispatch requests: position and locals of each
    written,     \* the writes the SFTP endpoint has received, in order
    clock,       \* date.today() on the server, as <<year, month, day>>
    remote,      \* the files on the SFTP endpoint: remote path -> content
    submitted,   \* None, or the form posted to new_expense
    users,       \* the users table
    users_before \* per user: None, or the row as it was when last promoted

callVars == <<obj, decisions, before, outcome, pc>>
exportVars == <<export_in, export_out>>
dispatchVars == <<config, disp, written>>
endpointVars == <<clock, remote>>
adminVars == <<users, users_before>>

vars == <<reports, obj, decisions, before, outcome, pc, export_in, export_out,
          config, disp, written, clock, remote, submitted, users, users_before>>

----------------------------------------------------------------------------
(* Bounds *)

MaxLines == 2        \* lines of the report handed to the service function
MaxReports == 2      \* reports the submission workflow may create
MaxFormLines == 1    \* line_date entries of one submitted form
MaxDispatches == 2   \* dispatch requests, which may overlap
MaxUsers == 2        \* rows of the users table

----------------------------------------------------------------------------
(* Python values *)

None == <<>>
Some(v) == <<v>>

UpperCase == <<"A","B","C","D","E","F","G","H","I","J","K","L","M",
               "N","O","P","Q","R","S","T","U","V","W","X","Y","Z">>
LowerCase == <<"a","b","c","d","e","f","g","h","i","j","k","l","m",
               "n","o","p","q","r","s","t","u","v","w","x","y","z">>
UpperCaseSet == {UpperCase[i] : i \in DOMAIN UpperCase}
LowerCaseOf ==
    [c \in UpperCaseSet |-> LowerCase[CHOOSE i \in DOMAIN UpperCase : UpperCase[i] = c]]

IsSpace(c) == c \in {" ", "\t", "\n"}

LowerChar(c) == IF c \in UpperCaseSet THEN LowerCaseOf[c] ELSE c

\* str.lower()
Lower(s) == [i \in DOMAIN s |-> LowerChar(s[i])]

RECURSIVE LStrip(_)
LStrip(s) == IF s # <<>> /\ IsSpace(Head(s)) THEN LStrip(Tail(s)) ELSE s

RECURSIVE RStrip(_)
RStrip(s) ==
    IF s # <<>> /\ IsSpace(s[Len(s)]) THEN RStrip(SubSeq(s, 1, Len(s) - 1)) ELSE s

\* str.strip()
Strip(s) == RStrip(LStrip(s))

\* (value or "") for a form field that may be absent: None and "" both give ""
OrEmpty(v) == IF v = None \/ v[1] = <<>> THEN <<>> ELSE v[1]

----------------------------------------------------------------------------
(* Entity model *)

DRAFT == "Draft"
PENDING_REVIEW == "Pending Review"
PENDING_UPLOAD == "Pending Upload"
COMPLETED == "Completed"

\* expense_lines.status as apply_line_review_decisions writes it; a new line
\* takes the column's server default
LINE_PENDING == "Pending Review"
LINE_APPROVED == "Approved"
LINE_REJECTED == "Rejected"

ExpenseLine(id, status, comment) ==
    [id |-> id, status |-> status, rejection_comment |-> comment]

ExpenseReport(id, status, comment, lines) ==
    [id |-> id, status |-> status, rejection_comment |-> comment, lines |-> lines]

ExpenseLineDecision(line_id, status, comment) ==
    [line_id |-> line_id, status |-> status, comment |-> comment]

----------------------------------------------------------------------------
(* Review Decision Applier: app/services/expense_workflow.py *)

MSG_SELECT == "Select approve or reject for each expense line."
MSG_COMMENT == "Add a rejection comment for each rejected expense line."
MSG_DRAFT == <<"Report", "updated", "with", "rejected", "lines", "and",
               "returned", "to", "draft", "status.">>
MSG_QUEUED == <<"Report", "approved", "and", "queued", "for", "NetSuite", "upload.">>
REJECTED_NOTE ==
    "One or more expense lines were rejected. Review line comments and resubmit."

APPROVE == <<"a","p","p","r","o","v","e">>
REJECT == <<"r","e","j","e","c","t">>

Raised(report, msg) ==
    [raised |-> TRUE, error |-> msg, message |-> <<>>, category |-> "",
     report |-> report]

Returned(report, message, category) ==
    [raised |-> FALSE, error |-> "", message |-> message, category |-> category,
     report |-> report]

\* decision_map = {decision.line_id: decision for decision in decisions}:
\* the last decision of a line id wins
InDecisionMap(ds, line_id) == \E i \in DOMAIN ds : ds[i].line_id = line_id

DecisionMapGet(ds, line_id) ==
    LET last == CHOOSE i \in DOMAIN ds :
                    /\ ds[i].line_id = line_id
                    /\ \A j \in DOMAIN ds : ds[j].line_id = line_id => j <= i
    IN  ds[last]

missing_lines(report, ds) ==
    SelectSeq(report.lines, LAMBDA line : ~InDecisionMap(ds, line.id))

normalized_status(decision) == Lower(Strip(decision.status))

\* line 252: normalized_status not in {"approve", "reject"}
accepts_any_status(status) == TRUE

is_valid_status(status) == status \in {APPROVE, REJECT}

\* line 256: "if not decision.comment" (the comment is tested as given)
comment_missing(decision) == decision.comment = <<>>

\* lines 260-261
RejectLine(line, decision) ==
    [line EXCEPT !.status = LINE_REJECTED,
                 !.rejection_comment = Some(decision.comment)]

\* lines 264-265
ApproveLineKeepingComment(line) == [line EXCEPT !.status = LINE_APPROVED]

ApproveLine(line) ==
    [line EXCEPT !.status = LINE_APPROVED, !.rejection_comment = None]

LoopRaised(report, msg, any_rejected) ==
    [raised |-> TRUE, error |-> msg, report |-> report,
     any_rejected |-> any_rejected]

LoopDone(report, any_rejected) ==
    [raised |-> FALSE, error |-> "", report |-> report,
     any_rejected |-> any_rejected]

\* lines 246-265, "for line in report.lines" from line i on: each pass
\* mutates line i and goes on, or raises and leaves lines 1..i-1 mutated.
RECURSIVE ReviewLoop(_, _, _, _)
ReviewLoop(report, ds, i, any_rejected) ==
    IF i > Len(report.lines) THEN LoopDone(report, any_rejected)
    ELSE
    LET line == report.lines[i]
        with(l) == [report EXCEPT !.lines[i] = l]
    IN  IF ~InDecisionMap(ds, line.id)
        THEN LoopRaised(report, MSG_SELECT, any_rejected)
        ELSE
        LET decision == DecisionMapGet(ds, line.id)
            status == normalized_status(decision)
        IN  IF ~is_valid_status(status)
            THEN LoopRaised(report, MSG_SELECT, any_rejected)
            ELSE IF status = REJECT
            THEN IF comment_missing(decision)
                 THEN LoopRaised(report, MSG_COMMENT, any_rejected)
                 ELSE ReviewLoop(with(RejectLine(line, decision)), ds, i + 1, TRUE)
            ELSE ReviewLoop(with(ApproveLine(line)), ds, i + 1, any_rejected)

\* lines 267-277: the report status derived from the loop's any_rejected
DeriveAlwaysQueued(report, any_rejected) ==
    Returned([report EXCEPT !.status = PENDING_UPLOAD, !.rejection_comment = None],
             MSG_QUEUED, "success")

DeriveKeepingNote(report, any_rejected) ==
    IF any_rejected
    THEN Returned([report EXCEPT !.status = DRAFT,
                                 !.rejection_comment = Some(REJECTED_NOTE)],
                  MSG_DRAFT, "info")
    ELSE Returned([report EXCEPT !.status = PENDING_UPLOAD], MSG_QUEUED, "success")

DeriveReportStatus(report, any_rejected) ==
    IF any_rejected
    THEN Returned([report EXCEPT !.status = DRAFT,
                                 !.rejection_comment = Some(REJECTED_NOTE)],
                  MSG_DRAFT, "info")
    ELSE Returned([report EXCEPT !.status = PENDING_UPLOAD,
                                 !.rejection_comment = None],
                  MSG_QUEUED, "success")

apply_skipping_missing(report, ds) ==
    LET kept == [report EXCEPT
                    !.lines = SelectSeq(report.lines,
                                        LAMBDA line : InDecisionMap(ds, line.id))]
        loop == ReviewLoop(kept, ds, 1, FALSE)
    IN  IF loop.raised THEN Raised(report, loop.error)
        ELSE DeriveReportStatus(report, loop.any_rejected)

apply_line_review_decisions(report, ds) ==
    IF missing_lines(report, ds) # <<>> THEN Raised(report, MSG_SELECT)
    ELSE LET loop == ReviewLoop(report, ds, 1, FALSE)
         IN  IF loop.raised THEN Raised(loop.report, loop.error)
             ELSE DeriveReportStatus(loop.report, loop.any_rejected)

\* parse_line_review_form_data: one decision per report line, both fields
\* trimmed; form maps a line id to <<status field, comment field>>, each
\* None when the key is absent
parse_line_review_form_data(report, form) ==
    [i \in DOMAIN report.lines |->
        LET id == report.lines[i].id
        IN  ExpenseLineDecision(id, Strip(OrEmpty(form[id][1])),
                                Strip(OrEmpty(form[id][2])))]

----------------------------------------------------------------------------
(* ApplySpec: one call of apply_line_review_decisions, and a second one *)

\* the server's date when it starts
FirstDay == <<2026, 1, 30>>

\* current_app.config without any NETSUITE_SFTP_* key
NoConfig == [host |-> None, username |-> None, password |-> None, directory |-> None]

NoCall == ExpenseReport(0, DRAFT, None, <<>>)

NoOutcome == [raised |-> FALSE, error |-> "", message |-> <<>>, category |-> ""]

\* the action and comment texts a caller may submit
ActionTexts ==
    {APPROVE, <<" ","R","e","j","e","c","t">>, <<>>, <<"h","o","l","d">>}
CommentTexts == {<<>>, <<" ">>, <<"n","o">>, <<" ","n","o"," ">>}

\* per line: no decision / no form keys (None), or <<action, comment>>
LineInputs == {None} \cup {Some(<<a, c>>) : a \in ActionTexts, c \in CommentTexts}

\* a line as a review call may find it: unreviewed, or rejected by an earlier
\* review
LineStatesBefore == {<<LINE_PENDING, None>>, <<LINE_REJECTED, Some(<<"n","o">>)>>}
HeadersBefore == {<<PENDING_REVIEW, None>>, <<DRAFT, Some(REJECTED_NOTE)>>}

ReportsBefore ==
    UNION {{ExpenseReport(1, h[1], h[2],
                          [i \in 1..n |-> ExpenseLine(i, ls[i][1], ls[i][2])]) :
                h \in HeadersBefore, ls \in [1..n -> LineStatesBefore]} :
           n \in 0..MaxLines}

\* decisions built by the caller itself, in line order, lines without input
\* left out
RECURSIVE DirectDecisions(_, _, _)
DirectDecisions(report, input, i) ==
    IF i > Len(report.lines) THEN <<>>
    ELSE LET rest == DirectDecisions(report, input, i + 1)
         IN  IF input[i] = None THEN rest
             ELSE <<ExpenseLineDecision(report.lines[i].id,
                                        input[i][1][1], input[i][1][2])>> \o rest

\* the same input as form fields line_status_<id>, line_comment_<id>
FormData(report, input) ==
    [id \in {report.lines[i].id : i \in DOMAIN report.lines} |->
        LET i == CHOOSE k \in DOMAIN report.lines : report.lines[k].id = id
        IN  IF input[i] = None THEN <<None, None>>
            ELSE <<Some(input[i][1][1]), Some(input[i][1][2])>>]

InitApply ==
    /\ reports = <<>>
    /\ export_in = <<>> /\ export_out = None
    /\ config = NoConfig /\ disp = <<>> /\ written = <<>>
    /\ clock = FirstDay /\ remote = <<>>
    /\ submitted = None /\ users = <<>> /\ users_before = <<>>
    /\ pc = "ready"
    /\ outcome = NoOutcome
    /\ obj \in ReportsBefore
    /\ before = obj
    /\ \E input \in [1..Len(obj.lines) -> LineInputs] :
          \/ decisions = DirectDecisions(obj, input, 1)
          \/ decisions = parse_line_review_form_data(obj, FormData(obj, input))

Apply ==
    /\ pc = "ready"
    /\ LET r == apply_line_review_decisions(obj, decisions)
       IN  /\ obj' = r.report
           /\ outcome' = [raised |-> r.raised, error |-> r.error,
                          message |-> r.message, category |-> r.category]
    /\ pc' = "done"
    /\ UNCHANGED <<reports, decisions, before, exportVars, dispatchVars, endpointVars, submitted, adminVars>>

\* the caller applies the same decisions to the same report object again
Reapply ==
    /\ pc = "done"
    /\ LET r == apply_line_review_decisions(obj, decisions)
       IN  /\ obj' = r.report
           /\ outcome' = [raised |-> r.raised, error |-> r.error,
                          message |-> r.message, category |-> r.category]
    /\ before' = obj
    /\ pc' = "twice"
    /\ UNCHANGED <<reports, decisions, exportVars, dispatchVars, endpointVars, submitted, adminVars>>

NextApply == Apply \/ Reapply

ApplySpec == InitApply /\ [][NextApply]_vars

----------------------------------------------------------------------------
(* Export Formatter: format_pending_reports_csv *)

\* The payload is modelled as the sequence of records csv.writer wrote, each
\* a sequence of ten fields; quoting and line terminators are not modelled.

\* an expense_lines row with the columns the formatter reads; amount is the
\* Numeric(10, 2) value in hundredths, date is <<year, month, day>>
ExpenseLineRow(id, status, comment, description, receipt_url) ==
    [id |-> id, status |-> status, rejection_comment |-> comment,
     date |-> <<2026, 1, id>>, expense_type |-> "Travel", gl_account |-> "6100",
     vendor |-> "Acme", description |-> description,
     amount |-> 1145 + 105 * id, receipt_url |-> receipt_url]

\* an expense_reports row with its employee and supervisor relationships
ExpenseReportRow(id, status, comment, lines) ==
    [id |-> id, status |-> status, rejection_comment |-> comment, lines |-> lines,
     employee |-> Some([email |-> "employee@example.com"]),
     supervisor |-> Some([email |-> "supervisor@example.com"])]

CSV_HEADER ==
    <<"report_id", "employee_email", "supervisor_email", "expense_date",
      "expense_type", "gl_account", "vendor", "description", "amount",
      "receipt_url">>

\* getattr(user, "email", "")
EmailOf(user) == IF user = None THEN <<>> ELSE user[1].email

Digits2(n) == <<(n \div 10) % 10, n % 10>>

\* date.isoformat(): YYYY-MM-DD
IsoFormat(date) ==
    <<date[1] \div 1000, (date[1] \div 100) % 10>> \o Digits2(date[1])
        \o <<"-">> \o Digits2(date[2]) \o <<"-">> \o Digits2(date[3])

\* f"{amount:.2f}" of a two-place decimal: whole part, point, two digits
FormatAmount(amount) == <<amount \div 100, ".">> \o Digits2(amount % 100)

\* the record written for one line of one report
CsvRow(report, line) ==
    <<report.id, EmailOf(report.employee), EmailOf(report.supervisor),
      IsoFormat(line.date), line.expense_type, line.gl_account, line.vendor,
      OrEmpty(line.description), FormatAmount(line.amount),
      OrEmpty(line.receipt_url)>>

\* for line in report.lines: writer.writerow(...)
LineRows(report) == [i \in DOMAIN report.lines |-> CsvRow(report, report.lines[i])]

\* for report in reports: ...
RECURSIVE ReportRows(_)
ReportRows(rs) ==
    IF rs = <<>> THEN <<>> ELSE LineRows(Head(rs)) \o ReportRows(Tail(rs))

format_pending_reports_csv(rs) == <<CSV_HEADER>> \o ReportRows(rs)

----------------------------------------------------------------------------
(* ExportSpec: one call of format_pending_reports_csv *)

LineStatuses == {LINE_PENDING, LINE_APPROVED, LINE_REJECTED}

\* the nullable columns: the first line of a report has a description and a
\* receipt, the second has neither, later ones an empty description
DescriptionAt(i) ==
    IF i = 1 THEN Some(<<"t", "a", "x", "i">>) ELSE IF i = 2 THEN None ELSE Some(<<>>)

ReceiptAt(i) == IF i = 1 THEN Some(<<"r", ".", "p", "d", "f">>) ELSE None

RejectionCommentFor(status) ==
    IF status = LINE_REJECTED THEN Some(<<"n", "o">>) ELSE None

\* the lines of the report with the given id, one per entry of statuses
LineRowsOf(id, statuses) ==
    [i \in DOMAIN statuses |->
        ExpenseLineRow((id - 1) * (MaxLines + 1) + i, statuses[i],
                       RejectionCommentFor(statuses[i]),
                       DescriptionAt(i), ReceiptAt(i))]

LineStatusSeqs == UNION {[1..n -> LineStatuses] : n \in 0..MaxLines}

\* a batch of Pending Upload reports, report k having lines in the review
\* statuses f[k]
ExportBatch(f) ==
    [k \in DOMAIN f |-> ExpenseReportRow(k, PENDING_UPLOAD, None, LineRowsOf(k, f[k]))]

InitExport ==
    /\ reports = <<>>
    /\ \E m \in 0..MaxReports : \E f \in [1..m -> LineStatusSeqs] :
          export_in = ExportBatch(f)
    /\ export_out = None
    /\ config = NoConfig /\ disp = <<>> /\ written = <<>>
    /\ clock = FirstDay /\ remote = <<>>
    /\ submitted = None /\ users = <<>> /\ users_before = <<>>
    /\ pc = "ready"
    /\ obj = NoCall
    /\ before = NoCall
    /\ decisions = <<>>
    /\ outcome = NoOutcome

Export ==
    /\ pc = "ready"
    /\ export_out' = Some(format_pending_reports_csv(export_in))
    /\ pc' = "done"
    /\ UNCHANGED <<reports, obj, decisions, before, outcome, export_in, dispatchVars, endpointVars, submitted, adminVars>>

NextExport == Export

ExportSpec == InitExport /\ [][NextExport]_vars

----------------------------------------------------------------------------
(* Spec: the request handlers over the committed reports *)

\* ids the database assigns: reports are numbered in order of insertion, a
\* new line gets the next unused line id
RECURSIVE LineCount(_)
LineCount(rs) == IF rs = <<>> THEN 0 ELSE Len(Head(rs).lines) + LineCount(Tail(rs))

\* a submitted line of the new-expense form, by what validation finds in it
FormLineKinds == {"blank", "ok", "bad_date", "bad_amount", "bad_gl"}

SubmittedForms == UNION {[1..n -> FormLineKinds] : n \in 0..MaxFormLines}

\* db.session.rollback() and the redirect after a line that fails validation
commit_after_invalid_line(session) == [rolled_back |-> FALSE, session |-> session]

rollback(session) == [rolled_back |-> TRUE, session |-> <<>>]

\* app/expenses.py 178-225: the loop over line_date entries; the session holds
\* the flushed report and the lines added so far, rollback empties it
RECURSIVE AddFormLines(_, _, _, _)
AddFormLines(form, i, session, next_line_id) ==
    IF i > Len(form) THEN [rolled_back |-> FALSE, session |-> session]
    ELSE IF form[i] = "blank" THEN AddFormLines(form, i + 1, session, next_line_id)
    ELSE IF form[i] \in {"bad_date", "bad_amount", "bad_gl"}
    THEN rollback(session)
    ELSE AddFormLines(
             form, i + 1,
             <<[session[1] EXCEPT
                   !.lines = Append(@, ExpenseLine(next_line_id, LINE_PENDING, None))]>>,
             next_line_id + 1)

\* app/expenses.py 154-229 (the header fields are taken as valid): the
\* committed reports after the request; a form without line_date entries is
\* turned away before anything is added
new_expense(rs, submit_action, form) ==
    LET report_status ==
            IF submit_action = "submit_review" THEN PENDING_REVIEW ELSE DRAFT
        report == ExpenseReport(Len(rs) + 1, report_status, None, <<>>)
        added == AddFormLines(form, 1, <<report>>, LineCount(rs) + 1)
    IN  IF form = <<>> \/ added.rolled_back THEN rs ELSE rs \o added.session

SubmitActions == {"submit_review", "save_draft"}

NewExpense ==
    /\ pc = "idle"
    /\ Len(reports) < MaxReports
    /\ \E submit_action \in SubmitActions, form \in SubmittedForms :
          reports' = new_expense(reports, submit_action, form)
    /\ UNCHANGED <<callVars, exportVars, dispatchVars, endpointVars, submitted, adminVars>>

\* what a reviewer may post for one line: <<line_<id>_action, line_<id>_comment>>
ReviewFieldPairs ==
    { <<APPROVE, <<>> >>,
      << <<" ","R","e","j","e","c","t">>, <<" ","n","o"," ">> >>,
      << REJECT, <<" ">> >>,
      << REJECT, <<>> >>,
      << <<"h","o","l","d">>, <<>> >> }

LineIds(report) == {report.lines[i].id : i \in DOMAIN report.lines}

FormsOver(report, pairs) == [LineIds(report) -> pairs]

ReviewForms(report) == FormsOver(report, ReviewFieldPairs)

\* app/expenses.py 294-300 and app/admin.py 483-489: one decision per line of
\* the report, the fields as posted. Both handlers import the applier as
\* apply_line_item_review_actions; the service module defines it under the
\* name apply_line_review_decisions, which is what they are given here.
RouteDecisions(report, form) ==
    [i \in DOMAIN report.lines |->
        LET id == report.lines[i].id
        IN  ExpenseLineDecision(id, OrEmpty(Some(form[id][1])),
                                OrEmpty(Some(form[id][2])))]

\* commit after a successful review; on ValueError the handler redirects and
\* the request's session is discarded with the uncommitted changes
CommitReview(r, result) ==
    IF result.raised THEN reports ELSE [reports EXCEPT ![r] = result.report]

\* app/expenses.py 288-314, the posted fields drawn from pairs
SupervisorReviewOf(pairs) ==
    /\ pc = "idle"
    /\ \E r \in DOMAIN reports, assigned \in BOOLEAN :
          IF ~assigned
          THEN UNCHANGED reports
          ELSE \E form \in FormsOver(reports[r], pairs) :
                  LET result == apply_line_review_decisions(
                                    reports[r], RouteDecisions(reports[r], form))
                  IN  reports' = CommitReview(r, result)
    /\ UNCHANGED <<callVars, exportVars, dispatchVars, endpointVars, submitted, adminVars>>

SupervisorReview == SupervisorReviewOf(ReviewFieldPairs)

\* app/admin.py 477-502, the posted fields drawn from pairs
AdminReviewOf(pairs) ==
    /\ pc = "idle"
    /\ \E r \in DOMAIN reports :
          IF reports[r].status # PENDING_REVIEW
          THEN UNCHANGED reports
          ELSE \E form \in FormsOver(reports[r], pairs) :
                  LET result == apply_line_review_decisions(
                                    reports[r], RouteDecisions(reports[r], form))
                  IN  reports' = CommitReview(r, result)
    /\ UNCHANGED <<callVars, exportVars, dispatchVars, endpointVars, submitted, adminVars>>

AdminReview == AdminReviewOf(ReviewFieldPairs)

\* app/expenses.py 345: ExpenseReport.query.filter_by(status="Pending Upload")
PendingUploads(rs) == {r \in DOMAIN rs : rs[r].status = PENDING_UPLOAD}

\* app/expenses.py 354-357
MarkEveryReport(rs, batch) ==
    [r \in DOMAIN rs |-> [rs[r] EXCEPT !.status = COMPLETED]]

MarkEveryQueued(rs, batch) ==
    [r \in DOMAIN rs |-> IF rs[r].status = PENDING_UPLOAD
                         THEN [rs[r] EXCEPT !.status = COMPLETED]
                         ELSE rs[r]]

MarkFirstOnly(rs, batch) ==
    [r \in DOMAIN rs |->
        IF r \in batch /\ \A q \in batch : r <= q
        THEN [rs[r] EXCEPT !.status = COMPLETED]
        ELSE rs[r]]

MarkCompleted(rs, batch) ==
    [r \in DOMAIN rs |-> IF r \in batch THEN [rs[r] EXCEPT !.status = COMPLETED]
                         ELSE rs[r]]

\* app/expenses.py 345-363 with dispatch_csv_via_sftp (320-340): configured is
\* whether host, username and password are all set, transport_ok whether
\* connect and write go through; either failure raises out of the handler
DispatchPendingUploads ==
    /\ pc = "idle"
    /\ \E configured \in BOOLEAN, transport_ok \in BOOLEAN :
          LET batch == PendingUploads(reports)
          IN  IF batch = {}
              THEN UNCHANGED reports
              ELSE IF ~configured \/ ~transport_ok
              THEN UNCHANGED reports
              ELSE reports' = MarkCompleted(reports, batch)
    /\ UNCHANGED <<callVars, exportVars, dispatchVars, endpointVars, submitted, adminVars>>

Init ==
    /\ reports = <<>>
    /\ export_in = <<>> /\ export_out = None
    /\ config = NoConfig /\ disp = <<>> /\ written = <<>>
    /\ clock = FirstDay /\ remote = <<>>
    /\ submitted = None /\ users = <<>> /\ users_before = <<>>
    /\ pc = "idle"
    /\ obj = NoCall
    /\ before = NoCall
    /\ decisions = <<>>
    /\ outcome = NoOutcome

Next ==
    \/ NewExpense
    \/ SupervisorReview
    \/ AdminReview
    \/ DispatchPendingUploads

Spec == Init /\ [][Next]_vars

----------------------------------------------------------------------------
(* SubmitSpec: one new_expense request *)

PostedForms == UNION {[1..n -> FormLineKinds] : n \in 0..MaxLines}

\* the reports committed before the request: none, or one awaiting review
ReportsBeforeSubmit ==
    { <<>>,
      <<ExpenseReport(1, PENDING_REVIEW, None,
                      <<ExpenseLine(1, LINE_PENDING, None)>>)>> }

InitSubmit ==
    /\ reports \in ReportsBeforeSubmit
    /\ submitted \in {Some([submit_action |-> a, form |-> f]) :
                         a \in SubmitActions, f \in PostedForms}
    /\ pc = "ready"
    /\ export_in = <<>> /\ export_out = None
    /\ config = NoConfig /\ disp = <<>> /\ written = <<>>
    /\ clock = FirstDay /\ remote = <<>>
    /\ users = <<>> /\ users_before = <<>>
    /\ obj = NoCall
    /\ before = NoCall
    /\ decisions = <<>>
    /\ outcome = NoOutcome

Submit ==
    /\ pc = "ready"
    /\ reports' = new_expense(reports, submitted[1].submit_action, submitted[1].form)
    /\ pc' = "done"
    /\ UNCHANGED <<obj, decisions, before, outcome, exportVars, dispatchVars,
                   endpointVars, submitted, adminVars>>

NextSubmit == Submit

SubmitSpec == InitSubmit /\ [][NextSubmit]_vars

----------------------------------------------------------------------------
(* Dispatch Coordinator: dispatch_pending_uploads and dispatch_csv_via_sftp *)

\* (current_app.config.get(KEY) or "").strip()
ConfigValue(v) == Strip(OrEmpty(v))

\* the test on line 329, negated: host, username and password all non-empty
password_not_required(host, username, password) == host # <<>> /\ username # <<>>

credentials_configured(host, username, password) ==
    host # <<>> /\ username # <<>> /\ password # <<>>

CONFIG_ERROR == "NetSuite SFTP credentials are not fully configured."
TRANSPORT_ERROR == "paramiko transport error"

\* one dispatch request: its position, the reports it loaded (by id, in query
\* order), the payload it built, its transport handle, the connections and
\* writes it attempted, the exception that left the handler, the reports
\* whose status it committed as Completed, whether the operator sent it
\* again after a failed request, the date it read, the file name and remote
\* path it built, and how many files had been written when it opened its own
NotStarted ==
    [pc |-> "start", batch |-> <<>>, payload |-> <<>>, transport |-> "none",
     attempts |-> 0, write_calls |-> 0, raised |-> None, marked |-> {},
     retried |-> FALSE, today |-> None, filename |-> <<>>, remote_path |-> <<>>,
     written_at_open |-> 0]

\* an exception propagates out of dispatch_csv_via_sftp and out of the
\* handler, which has no except clause: lines 354-357 do not run
continue_after_error(rec, error) ==
    [rec EXCEPT !.pc = "written", !.raised = Some(error)]

retry_after_error(rec, error) ==
    [rec EXCEPT !.pc = "queried", !.raised = Some(error)]

Raise(rec, error) == [rec EXCEPT !.pc = "failed", !.raised = Some(error)]

\* finally: transport.close()
transport_left_open(transport) == transport

transport_close(transport) == "closed"

RECURSIVE IdsInOrder(_, _)
IdsInOrder(ids, from) ==
    IF ids = {} THEN <<>>
    ELSE IF from \in ids THEN <<from>> \o IdsInOrder(ids \ {from}, from + 1)
    ELSE IdsInOrder(ids, from + 1)

BatchIds(rec) == {rec.batch[k] : k \in DOMAIN rec.batch}

\* str.rstrip("/")
RECURSIVE RStripSlash(_)
RStripSlash(s) ==
    IF s # <<>> /\ s[Len(s)] = "/" THEN RStripSlash(SubSeq(s, 1, Len(s) - 1)) ELSE s

\* app/expenses.py 351: f"netsuite-expenses-{date.today().isoformat()}.csv"
Filename(today) == <<"netsuite-expenses-">> \o IsoFormat(today) \o <<".csv">>

\* expense_workflow.py 326: (config.get("NETSUITE_SFTP_DIRECTORY") or "/").strip()
RemoteDir(directory) ==
    Strip(IF directory = None \/ directory[1] = <<>> THEN <<"/">> ELSE directory[1])

\* expense_workflow.py 336: f"{remote_dir.rstrip('/')}/{filename}"
RemotePath(remote_dir, filename) == RStripSlash(remote_dir) \o <<"/">> \o filename

\* client.file(path, "r+") would keep what an existing file holds
open_for_update(files, path) ==
    IF path \in DOMAIN files THEN files ELSE (path :> <<>>) @@ files

\* client.file(path, "w"): the file is created, or truncated when it exists
OpenForWriting(files, path) == (path :> <<>>) @@ files

\* remote_file.write(payload) through a handle opened with "w": the payload
\* is written from the start of the file, over what the file holds
WriteFromStart(files, path, payload) ==
    LET held == IF path \in DOMAIN files THEN files[path] ELSE <<>>
    IN  (path :> payload \o SubSeq(held, Len(payload) + 1, Len(held))) @@ files

\* app/expenses.py 345-351: the query, the empty-queue return, the payload
\* and the file name
QueryPendingUploads(d) ==
    /\ disp[d].pc = "start"
    /\ LET batch == IdsInOrder(PendingUploads(reports), 1)
           loaded == [k \in DOMAIN batch |-> reports[batch[k]]]
       IN  IF batch = <<>>
           THEN disp' = [disp EXCEPT ![d].pc = "empty"]
           ELSE disp' = [disp EXCEPT ![d].pc = "queried",
                                     ![d].batch = batch,
                                     ![d].payload = format_pending_reports_csv(loaded),
                                     ![d].today = Some(clock),
                                     ![d].filename = Filename(clock)]
    /\ UNCHANGED <<reports, callVars, exportVars, config, written, endpointVars, submitted, adminVars>>

\* expense_workflow.py 323-332: the settings are read and tested, then the
\* Transport constructor opens the socket, which may fail
OpenTransport(d) ==
    /\ disp[d].pc = "queried"
    /\ LET host == ConfigValue(config.host)
           username == ConfigValue(config.username)
           password == ConfigValue(config.password)
           rec == disp[d]
       IN  IF ~credentials_configured(host, username, password)
           THEN disp' = [disp EXCEPT ![d] = Raise(rec, CONFIG_ERROR)]
           ELSE \E ok \in BOOLEAN :
                  LET tried == [rec EXCEPT !.attempts = @ + 1]
                  IN  IF ok
                      THEN disp' = [disp EXCEPT ![d] =
                                      [tried EXCEPT !.pc = "opened", !.transport = "open"]]
                      ELSE disp' = [disp EXCEPT ![d] = Raise(tried, TRANSPORT_ERROR)]
    /\ UNCHANGED <<reports, callVars, exportVars, config, written, endpointVars, submitted, adminVars>>

\* expense_workflow.py 334: transport.connect negotiates and authenticates
Connect(d) ==
    /\ disp[d].pc = "opened"
    /\ \E ok \in BOOLEAN :
          IF ok
          THEN disp' = [disp EXCEPT ![d].pc = "connected"]
          ELSE disp' = [disp EXCEPT ![d] =
                          Raise([disp[d] EXCEPT !.transport = transport_close(@)],
                                TRANSPORT_ERROR)]
    /\ UNCHANGED <<reports, callVars, exportVars, config, written, endpointVars, submitted, adminVars>>

\* expense_workflow.py 335-337: the SFTP session and the remote file are opened
OpenRemoteFile(d) ==
    /\ disp[d].pc = "connected"
    /\ \E ok \in BOOLEAN :
          LET remote_path == RemotePath(RemoteDir(config.directory), disp[d].filename)
          IN  IF ok
              THEN /\ disp' = [disp EXCEPT ![d].pc = "file_open",
                                           ![d].remote_path = remote_path,
                                           ![d].written_at_open = Len(written)]
                   /\ remote' = OpenForWriting(remote, remote_path)
              ELSE /\ disp' = [disp EXCEPT ![d] =
                                 Raise([disp[d] EXCEPT !.transport = transport_close(@)],
                                       TRANSPORT_ERROR)]
                   /\ UNCHANGED remote
    /\ UNCHANGED <<reports, callVars, exportVars, config, written, clock, submitted, adminVars>>

\* expense_workflow.py 338-340: the payload is written and the transport closed
WritePayload(d) ==
    /\ disp[d].pc = "file_open"
    /\ \E ok \in BOOLEAN :
          LET rec == [disp[d] EXCEPT !.write_calls = @ + 1,
                                     !.transport = transport_close(@)]
          IN  IF ok
              THEN /\ disp' = [disp EXCEPT ![d] = [rec EXCEPT !.pc = "written"]]
                   /\ written' = Append(written, [by |-> d, batch |-> rec.batch,
                                                   payload |-> rec.payload,
                                                   today |-> rec.today[1],
                                                   remote_path |-> rec.remote_path])
                   /\ remote' = WriteFromStart(remote, rec.remote_path, rec.payload)
              ELSE /\ disp' = [disp EXCEPT ![d] = Raise(rec, TRANSPORT_ERROR)]
                   /\ UNCHANGED <<written, remote>>
    /\ UNCHANGED <<reports, callVars, exportVars, config, clock, submitted, adminVars>>

\* app/expenses.py 354-363: every loaded report is set to Completed, committed
CommitCompleted(d) ==
    /\ disp[d].pc = "written"
    /\ reports' = MarkCompleted(reports, BatchIds(disp[d]))
    /\ disp' = [disp EXCEPT ![d].pc = "done", ![d].marked = BatchIds(disp[d])]
    /\ UNCHANGED <<callVars, exportVars, config, written, endpointVars, submitted, adminVars>>

Chars(c) == Some(<<c>>)

\* NETSUITE_SFTP_DIRECTORY is optional and left unset here
ConfiguredSettings ==
    [host |-> Chars("h"), username |-> Chars("u"), password |-> Chars("p"),
     directory |-> None]

\* the settings as deployments have them: complete, complete with padding,
\* or with one of the three unset, empty or blank
ConfigChoices ==
    { ConfiguredSettings,
      [ConfiguredSettings EXCEPT !.host = Some(<<" ", "h", " ">>)],
      [ConfiguredSettings EXCEPT !.host = None],
      [ConfiguredSettings EXCEPT !.host = Some(<<" ">>)],
      [ConfiguredSettings EXCEPT !.username = Some(<<>>)],
      [ConfiguredSettings EXCEPT !.password = None],
      [ConfiguredSettings EXCEPT !.password = Some(<<" ", "\t">>)] }

\* the review status the lines of a report in the given status have
LineStatusIn(status) ==
    IF status = PENDING_UPLOAD THEN LINE_APPROVED
    ELSE IF status = DRAFT THEN LINE_REJECTED
    ELSE LINE_PENDING

\* the committed reports before the first dispatch: none is Completed
DispatchDatabases ==
    UNION {{[r \in 1..n |->
                ExpenseReportRow(r, st[r], None,
                    LineRowsOf(r, [i \in 1..MaxFormLines |-> LineStatusIn(st[r])]))] :
            st \in [1..n -> {DRAFT, PENDING_REVIEW, PENDING_UPLOAD}]} :
           n \in 0..MaxReports}

InitDispatch ==
    /\ reports \in DispatchDatabases
    /\ config \in ConfigChoices
    /\ disp = [d \in 1..MaxDispatches |-> NotStarted]
    /\ written = <<>>
    /\ clock = FirstDay /\ remote = <<>>
    /\ submitted = None /\ users = <<>> /\ users_before = <<>>
    /\ export_in = <<>> /\ export_out = None
    /\ pc = "idle"
    /\ obj = NoCall
    /\ before = NoCall
    /\ decisions = <<>>
    /\ outcome = NoOutcome

NextDispatch ==
    \E d \in 1..MaxDispatches :
        \/ QueryPendingUploads(d)
        \/ OpenTransport(d)
        \/ Connect(d)
        \/ OpenRemoteFile(d)
        \/ WritePayload(d)
        \/ CommitCompleted(d)

DispatchSpec == InitDispatch /\ [][NextDispatch]_vars

----------------------------------------------------------------------------
(* SequentialSpec: dispatch requests one after another, reviews in between *)

\* no other dispatch request is between its query and the end of its handler
NoneInProgress(d) ==
    \A e \in DOMAIN disp \ {d} :
        disp[e].pc \notin {"queried", "opened", "connected", "file_open", "written"}

\* a request that arrives while no other request is being served
SequentialQuery(d) == NoneInProgress(d) /\ QueryPendingUploads(d)

NextSequential ==
    \/ \E d \in 1..MaxDispatches :
          \/ SequentialQuery(d)
          \/ OpenTransport(d)
          \/ Connect(d)
          \/ OpenRemoteFile(d)
          \/ WritePayload(d)
          \/ CommitCompleted(d)
    \/ SupervisorReview
    \/ AdminReview

SequentialSpec == InitDispatch /\ [][NextSequential]_vars

----------------------------------------------------------------------------
(* ReviewDispatchSpec: one dispatch request with reviews at any point of it *)

\* what the reviewers post per line here: approve, or reject with a comment
DecisivePairs ==
    { <<APPROVE, <<>> >>,
      << REJECT, <<" ","n","o"," ">> >> }

SupervisorDecides == SupervisorReviewOf(DecisivePairs)

AdminDecides == AdminReviewOf(DecisivePairs)

\* the request whose steps the reviews interleave with
Dispatcher == {1}

NextReviewDispatch ==
    \/ \E d \in Dispatcher :
          \/ QueryPendingUploads(d)
          \/ OpenTransport(d)
          \/ Connect(d)
          \/ OpenRemoteFile(d)
          \/ WritePayload(d)
          \/ CommitCompleted(d)
    \/ SupervisorDecides
    \/ AdminDecides

ReviewDispatchSpec == InitDispatch /\ [][NextReviewDispatch]_vars

----------------------------------------------------------------------------
(* PathSpec: two dispatch requests, over several dates and for each setting
   of the remote directory, with approvals in between *)

\* the calendar date after the given one
NextDay(date) ==
    LET y == date[1]
        m == date[2]
        leap == (y % 4 = 0 /\ y % 100 # 0) \/ y % 400 = 0
        days_in_month ==
            IF m = 2 THEN (IF leap THEN 29 ELSE 28)
            ELSE IF m \in {4, 6, 9, 11} THEN 30 ELSE 31
    IN  IF date[3] < days_in_month THEN <<y, m, date[3] + 1>>
        ELSE IF m < 12 THEN <<y, m + 1, 1>>
        ELSE <<y + 1, 1, 1>>

\* one operator, who sends the next request when the last one has failed
Operators == {1}

\* date.today() moves on at midnight, once between the two requests or
\* during one of them
Tick ==
    /\ clock = FirstDay
    /\ clock' = NextDay(clock)
    /\ UNCHANGED <<reports, callVars, exportVars, dispatchVars, remote, submitted,
                   adminVars>>

\* NETSUITE_SFTP_DIRECTORY as deployments set it: unset, or a directory
\* with a trailing slash and padding
Directories == { None, Some(<<" ", "/", "i", "n", "/", " ">>) }

\* the committed reports when the first request arrives: each awaits review
\* or is queued for upload
PathDatabases ==
    { rs \in DispatchDatabases :
        \A r \in DOMAIN rs : rs[r].status \in {PENDING_REVIEW, PENDING_UPLOAD} }

\* what the supervisor posts per line between the requests: an approval
SupervisorApproves == SupervisorReviewOf({ <<APPROVE, <<>> >> })

\* two requests, sent by two admins or by one admin twice; the second may
\* arrive while the first is being served
Senders == {1, 2}

InitPath ==
    /\ reports \in PathDatabases
    /\ \E directory \in Directories :
          config = [ConfiguredSettings EXCEPT !.directory = directory]
    /\ disp = [d \in Senders |-> NotStarted]
    /\ written = <<>>
    /\ clock = FirstDay /\ remote = <<>>
    /\ submitted = None /\ users = <<>> /\ users_before = <<>>
    /\ export_in = <<>> /\ export_out = None
    /\ pc = "idle"
    /\ obj = NoCall
    /\ before = NoCall
    /\ decisions = <<>>
    /\ outcome = NoOutcome

NextPath ==
    \/ \E d \in Senders :
          \/ QueryPendingUploads(d)
          \/ OpenTransport(d)
          \/ Connect(d)
          \/ OpenRemoteFile(d)
          \/ WritePayload(d)
          \/ CommitCompleted(d)
    \/ SupervisorApproves
    \/ Tick

PathSpec == InitPath /\ [][NextPath]_vars

----------------------------------------------------------------------------
(* RetrySpec: the operator sends the dispatch request again after a failure *)

\* the handler keeps nothing between requests: a repeated POST /dispatch
\* starts again at the query
Retry(d) ==
    /\ disp[d].pc = "failed"
    /\ disp' = [disp EXCEPT ![d] = [NotStarted EXCEPT !.retried = TRUE]]
    /\ UNCHANGED <<reports, callVars, exportVars, config, written, endpointVars,
                   submitted, adminVars>>

NextRetry ==
    \E d \in Operators :
        \/ QueryPendingUploads(d)
        \/ OpenTransport(d)
        \/ Connect(d)
        \/ OpenRemoteFile(d)
        \/ WritePayload(d)
        \/ CommitCompleted(d)
        \/ Retry(d)

\* the steps of a request in which the transport call goes through
TransportOpened(d) == OpenTransport(d) /\ disp'[d].pc = "opened"
Connected(d) == Connect(d) /\ disp'[d].pc = "connected"
RemoteFileOpened(d) == OpenRemoteFile(d) /\ disp'[d].pc = "file_open"
PayloadWritten(d) == WritePayload(d) /\ disp'[d].pc = "written"

\* every request runs to its end, a failed request is sent again, and a
\* transport call that is tried again and again eventually goes through
RetryFairness ==
    \A d \in Operators :
        /\ WF_vars(QueryPendingUploads(d))
        /\ WF_vars(OpenTransport(d))
        /\ WF_vars(Connect(d))
        /\ WF_vars(OpenRemoteFile(d))
        /\ WF_vars(WritePayload(d))
        /\ WF_vars(CommitCompleted(d))
        /\ WF_vars(Retry(d))
        /\ SF_vars(TransportOpened(d))
        /\ SF_vars(Connected(d))
        /\ SF_vars(RemoteFileOpened(d))
        /\ SF_vars(PayloadWritten(d))

RetrySpec == InitDispatch /\ [][NextRetry]_vars /\ RetryFairness

----------------------------------------------------------------------------
(* Admin role bookkeeping: app/admin.py _sync_admin_role, promote, demote *)

CUSTOMER == "customer"
EMPLOYEE == "employee"
SUPER_ADMIN == "super_admin"

User(role, employee_approved, previous_role, previous_employee_approved, is_admin) ==
    [role |-> role, employee_approved |-> employee_approved,
     admin_previous_role |-> previous_role,
     admin_previous_employee_approved |-> previous_employee_approved,
     is_admin |-> is_admin]

\* (a or b) for two optional roles; a role is never the empty string
OrRole(a, b) == IF a # None THEN a ELSE b

\* lines 115-127: the argument when given, else what the row holds
StoredRole(user, previous_role) ==
    IF previous_role # None THEN previous_role
    ELSE IF user.role # SUPER_ADMIN THEN Some(user.role)
    ELSE user.admin_previous_role

StoredEmployeeFlag(user, previous_employee_approved) ==
    IF previous_employee_approved # None THEN previous_employee_approved
    ELSE IF user.role # SUPER_ADMIN THEN Some(user.employee_approved)
    ELSE user.admin_previous_employee_approved

\* lines 130, 132-134, 136-138: the role cached while the user is admin
CachedRole(user, stored_role) ==
    LET fallback_role ==
            OrRole(OrRole(stored_role, user.admin_previous_role), Some(CUSTOMER))[1]
    IN  IF fallback_role # SUPER_ADMIN THEN fallback_role ELSE CUSTOMER

\* lines 129-143
GrantAdmin(user, stored_role, stored_employee_flag) ==
    LET cached ==
            IF user.role # SUPER_ADMIN
            THEN [user EXCEPT
                     !.admin_previous_role = Some(CachedRole(user, stored_role)),
                     !.admin_previous_employee_approved = stored_employee_flag]
            ELSE IF user.admin_previous_role = None
            THEN [user EXCEPT
                     !.admin_previous_role = Some(CachedRole(user, stored_role))]
            ELSE user
        flagged ==
            IF cached.admin_previous_employee_approved = None
            THEN [cached EXCEPT !.admin_previous_employee_approved = stored_employee_flag]
            ELSE cached
    IN  [flagged EXCEPT !.role = SUPER_ADMIN, !.employee_approved = TRUE]

\* lines 150-152
RestoredRole(user, stored_role) ==
    LET restored_role ==
            OrRole(OrRole(user.admin_previous_role, stored_role), Some(CUSTOMER))[1]
    IN  IF restored_role \notin {CUSTOMER, EMPLOYEE} THEN CUSTOMER ELSE restored_role

approve_restored_employee(user, restored_role, stored_employee_flag) ==
    restored_role = EMPLOYEE

\* lines 156-164
RestoredEmployeeApproved(user, restored_role, stored_employee_flag) ==
    IF restored_role = EMPLOYEE
    THEN IF user.admin_previous_employee_approved # None
         THEN user.admin_previous_employee_approved[1]
         ELSE IF stored_employee_flag # None THEN stored_employee_flag[1]
         ELSE TRUE
    ELSE FALSE

\* lines 145-167
RevokeAdmin(user, stored_role, stored_employee_flag) ==
    IF user.role # SUPER_ADMIN
    THEN [user EXCEPT !.admin_previous_role = None,
                      !.admin_previous_employee_approved = None]
    ELSE LET restored_role == RestoredRole(user, stored_role)
         IN  [user EXCEPT
                 !.role = restored_role,
                 !.employee_approved =
                     RestoredEmployeeApproved(user, restored_role, stored_employee_flag),
                 !.admin_previous_role = None,
                 !.admin_previous_employee_approved = None]

_sync_admin_role(user, is_admin, previous_role, previous_employee_approved) ==
    LET stored_role == StoredRole(user, previous_role)
        stored_employee_flag == StoredEmployeeFlag(user, previous_employee_approved)
    IN  IF is_admin
        THEN GrantAdmin(user, stored_role, stored_employee_flag)
        ELSE RevokeAdmin(user, stored_role, stored_employee_flag)

\* app/admin.py 627-657: the row that promote commits
promote(user) ==
    LET previous_role ==
            IF user.role # SUPER_ADMIN THEN user.role
            ELSE OrRole(user.admin_previous_role, Some(CUSTOMER))[1]
        previous_employee_approved ==
            IF user.role # SUPER_ADMIN THEN user.employee_approved
            ELSE IF user.admin_previous_employee_approved = None THEN FALSE
            ELSE user.admin_previous_employee_approved[1]
    IN  _sync_admin_role([user EXCEPT !.is_admin = TRUE], TRUE,
                         Some(previous_role), Some(previous_employee_approved))

\* app/admin.py 660-688: the row that demote commits
demote(user) ==
    LET previous_role ==
            OrRole(user.admin_previous_role,
                   Some(IF user.role # SUPER_ADMIN THEN user.role ELSE CUSTOMER))[1]
        previous_employee_approved ==
            IF user.admin_previous_employee_approved # None
            THEN user.admin_previous_employee_approved[1]
            ELSE IF user.role # SUPER_ADMIN THEN user.employee_approved ELSE FALSE
    IN  _sync_admin_role([user EXCEPT !.is_admin = FALSE], FALSE,
                         Some(previous_role), Some(previous_employee_approved))

----------------------------------------------------------------------------
(* RoleSpec: promote and demote requests over the users table *)

\* the rows the user forms create: a customer (never employee_approved), an
\* employee approved or not, and a super admin created as such (admin.py
\* 785-813)
UsersAsCreated ==
    { User(CUSTOMER, FALSE, None, None, FALSE),
      User(EMPLOYEE, TRUE, None, None, FALSE),
      User(EMPLOYEE, FALSE, None, None, FALSE),
      User(SUPER_ADMIN, TRUE, Some(CUSTOMER), Some(TRUE), TRUE) }

InitRole ==
    /\ \E n \in 1..MaxUsers : users \in [1..n -> UsersAsCreated]
    /\ users_before = [u \in DOMAIN users |-> None]
    /\ reports = <<>>
    /\ submitted = None
    /\ pc = "idle"
    /\ export_in = <<>> /\ export_out = None
    /\ config = NoConfig /\ disp = <<>> /\ written = <<>>
    /\ clock = FirstDay /\ remote = <<>>
    /\ obj = NoCall
    /\ before = NoCall
    /\ decisions = <<>>
    /\ outcome = NoOutcome

Promote(u) ==
    /\ users' = [users EXCEPT ![u] = promote(users[u])]
    /\ users_before' =
          IF users[u].role # SUPER_ADMIN
          THEN [users_before EXCEPT ![u] = Some(users[u])]
          ELSE users_before
    /\ UNCHANGED <<reports, callVars, exportVars, dispatchVars, endpointVars, submitted>>

Demote(u) ==
    /\ users' = [users EXCEPT ![u] = demote(users[u])]
    /\ UNCHANGED <<reports, callVars, exportVars, dispatchVars, endpointVars, submitted,
                   users_before>>

NextRole ==
    \/ \E u \in DOMAIN users : Promote(u)
    \/ \E u \in DOMAIN users : Demote(u)

RoleSpec == InitRole /\ [][NextRole]_vars

----------------------------------------------------------------------------
(* Claims about the committed reports, checked under Spec *)

CommittedLines(report) == {report.lines[i] : i \in DOMAIN report.lines}

----------------------------------------------------------------------------
(* Claims about apply_line_review_decisions, checked under ApplySpec *)

Called == pc = "done"

\* the decisions the caller gave for a line
DecisionsOf(line) ==
    {decisions[i] : i \in {k \in DOMAIN decisions : decisions[k].line_id = line.id}}

LinesBefore == {before.lines[i] : i \in DOMAIN before.lines}

ActionOf(d) == Lower(Strip(d.status))

EveryLineDecided == \A line \in LinesBefore : DecisionsOf(line) # {}

\* C1: whenever the call fails with a validation error, the report and every
\* one of its lines are exactly as they were before the call (no mutation
\* precedes the end of validation).
C1_AllOrNothingOnError == (Called /\ outcome.raised) => obj = before

\* C4: a report with N >= 1 lines and a decision set approving every line ends
\* Pending Upload, rejection_comment None, every line Approved, and the call
\* returns category "success".
AllApproving ==
    /\ Len(before.lines) >= 1
    /\ EveryLineDecided
    /\ \A line \in LinesBefore : \A d \in DecisionsOf(line) : ActionOf(d) = APPROVE

C4_AllApproveQueuesReport ==
    (Called /\ AllApproving) =>
        /\ ~outcome.raised
        /\ obj.status = PENDING_UPLOAD
        /\ obj.rejection_comment = None
        /\ \A i \in DOMAIN obj.lines : obj.lines[i].status = LINE_APPROVED
        /\ outcome.category = "success"

C4_Witness ==
    /\ Called /\ AllApproving
    /\ Len(before.lines) >= 2
    /\ before.rejection_comment # None
    /\ \E line \in LinesBefore : line.status = LINE_REJECTED

\* C5: a valid decision set rejecting at least one line (with a comment) sets
\* the report to Draft with the fixed non-empty note, returns category "info"
\* with a message mentioning the draft, and never queues the report.
ValidDecisionSet ==
    /\ EveryLineDecided
    /\ \A line \in LinesBefore : \A d \in DecisionsOf(line) :
          /\ ActionOf(d) \in {APPROVE, REJECT}
          /\ ActionOf(d) = REJECT => Strip(d.comment) # <<>>

SomeLineRejected ==
    \E line \in LinesBefore : \E d \in DecisionsOf(line) : ActionOf(d) = REJECT

MentionsDraft(message) == \E i \in DOMAIN message : message[i] = "draft"

C5_AnyRejectReturnsToDraft ==
    (Called /\ ValidDecisionSet /\ SomeLineRejected) =>
        /\ ~outcome.raised
        /\ obj.status = DRAFT
        /\ obj.status # PENDING_UPLOAD
        /\ obj.rejection_comment = Some(REJECTED_NOTE)
        /\ REJECTED_NOTE # ""
        /\ outcome.category = "info"
        /\ MentionsDraft(outcome.message)

C5_Witness ==
    /\ Called /\ ValidDecisionSet /\ SomeLineRejected
    /\ Len(before.lines) >= 2
    /\ before.status = PENDING_REVIEW
    /\ \E line \in LinesBefore : \E d \in DecisionsOf(line) : ActionOf(d) = APPROVE

\* C6: after a successful call every approved line is Approved with its
\* comment cleared, every rejected line is Rejected with the trimmed decision
\* comment, and no line is left pending.
C6_LinesFollowDecisions ==
    (Called /\ ~outcome.raised) =>
        \A i \in DOMAIN obj.lines :
            /\ obj.lines[i].status # LINE_PENDING
            /\ \A d \in DecisionsOf(before.lines[i]) :
                  /\ ActionOf(d) = APPROVE =>
                        /\ obj.lines[i].status = LINE_APPROVED
                        /\ obj.lines[i].rejection_comment = None
                  /\ ActionOf(d) = REJECT =>
                        /\ obj.lines[i].status = LINE_REJECTED
                        /\ obj.lines[i].rejection_comment = Some(Strip(d.comment))

\* C7: the call fails whenever some line is rejected with a comment that is
\* empty after trimming.
C7_RejectWithoutCommentRaises ==
    (Called /\ \E line \in LinesBefore : \E d \in DecisionsOf(line) :
                   ActionOf(d) = REJECT /\ Strip(d.comment) = <<>>)
        => outcome.raised

\* C8: a decision set lacking a decision for some line makes the call raise
\* and leaves the report status unchanged.
SomeLineUndecided == \E line \in LinesBefore : DecisionsOf(line) = {}

C8_MissingDecisionRaises ==
    (Called /\ SomeLineUndecided) =>
        /\ outcome.raised
        /\ obj.status = before.status

C8_Witness ==
    /\ Called /\ SomeLineUndecided
    /\ before.status = PENDING_REVIEW
    /\ \E line \in LinesBefore : \E d \in DecisionsOf(line) : ActionOf(d) = APPROVE

\* C9: a call on a report with zero lines fails and mutates nothing.
C9_NoLinesRaises == (Called /\ before.lines = <<>>) => (outcome.raised /\ obj = before)

\* C10: the call fails whenever some line's action is neither approve nor
\* reject, the empty action included.
SomeActionInvalid ==
    \E line \in LinesBefore : \E d \in DecisionsOf(line) :
        ActionOf(d) \notin {APPROVE, REJECT}

C10_InvalidActionRaises == (Called /\ SomeActionInvalid) => outcome.raised

C10_Witness ==
    /\ Called
    /\ Len(before.lines) >= 2
    /\ \E d \in DecisionsOf(before.lines[1]) : ActionOf(d) = APPROVE
    /\ \E d \in DecisionsOf(before.lines[2]) : d.status = <<>>

\* C11: applying the same all-approve decision set a second time leaves the
\* report exactly as the first application left it: Pending Upload, no
\* report-level rejection comment, every line Approved with no comment.
CalledTwice == pc = "twice"

AllDecisionsApprove ==
    /\ EveryLineDecided
    /\ \A line \in LinesBefore : \A d \in DecisionsOf(line) : ActionOf(d) = APPROVE

C11_AllApproveIsIdempotent ==
    (CalledTwice /\ AllDecisionsApprove) =>
        /\ ~outcome.raised
        /\ obj = before
        /\ obj.status = PENDING_UPLOAD
        /\ obj.rejection_comment = None
        /\ \A i \in DOMAIN obj.lines :
              /\ obj.lines[i].status = LINE_APPROVED
              /\ obj.lines[i].rejection_comment = None

C11_Witness ==
    /\ CalledTwice /\ AllDecisionsApprove
    /\ Len(obj.lines) >= 2
    /\ obj = before
    /\ obj.status = PENDING_UPLOAD

----------------------------------------------------------------------------
(* Claims about format_pending_reports_csv, checked under ExportSpec *)

Exported == export_out # None

Payload == export_out[1]

DataRows == {Payload[i] : i \in 2..Len(Payload)}

\* C12: no line that is Rejected or Pending contributes a row to the export
\* payload: the payload holds no data row built from a line whose review
\* status is not Approved.
C12_OnlyApprovedLinesExported ==
    Exported =>
        \A k \in DOMAIN export_in : \A i \in DOMAIN export_in[k].lines :
            export_in[k].lines[i].status # LINE_APPROVED =>
                CsvRow(export_in[k], export_in[k].lines[i]) \notin DataRows

\* C13: the payload is the header row followed by exactly one data row per
\* Approved line, in the order of the input reports and of each report's
\* lines; the number of data rows is the number of Approved lines.
IsApproved(line) == line.status = LINE_APPROVED

ApprovedOnly(rs) ==
    [k \in DOMAIN rs |-> [rs[k] EXCEPT !.lines = SelectSeq(@, IsApproved)]]

RECURSIVE ApprovedLineCount(_)
ApprovedLineCount(rs) ==
    IF rs = <<>> THEN 0
    ELSE Len(SelectSeq(Head(rs).lines, IsApproved)) + ApprovedLineCount(Tail(rs))

C13_HeaderThenApprovedRowsInOrder ==
    Exported =>
        /\ Payload[1] = CSV_HEADER
        /\ Len(Payload) = 1 + ApprovedLineCount(export_in)
        /\ Payload = <<CSV_HEADER>> \o ReportRows(ApprovedOnly(export_in))

----------------------------------------------------------------------------
(* Claims about dispatch, checked under DispatchSpec *)

Dispatches == DOMAIN disp

\* the request is between its query and the end of the handler
InProgress(d) ==
    disp[d].pc \in {"queried", "opened", "connected", "file_open", "written"}

\* dispatch_csv_via_sftp has returned or raised
LeftSftp(d) == disp[d].pc \in {"failed", "written", "done"}

MarkedByOther(d, id) == \E e \in Dispatches \ {d} : id \in disp[e].marked

\* C14: a dispatch whose transport failed (on connecting, authenticating or
\* writing) ends in an error and marks no report Completed; every report of
\* its batch is still Pending Upload unless another dispatch completed it.
TransportFailed(d) == disp[d].raised = Some(TRANSPORT_ERROR)

C14_FailedDispatchMarksNothing ==
    \A d \in Dispatches :
        TransportFailed(d) =>
            /\ disp[d].pc = "failed"
            /\ disp[d].marked = {}
            /\ \A id \in BatchIds(disp[d]) :
                  reports[id].status = PENDING_UPLOAD \/ MarkedByOther(d, id)

C14_Witness ==
    \E d \in Dispatches :
        /\ TransportFailed(d)
        /\ disp[d].write_calls = 1
        /\ Cardinality(BatchIds(disp[d])) >= 2
        /\ \A id \in BatchIds(disp[d]) : reports[id].status = PENDING_UPLOAD
        /\ \E e \in Dispatches : TransportFailed(e) /\ disp[e].attempts = 1
                                   /\ disp[e].transport = "closed"
                                   /\ disp[e].write_calls = 0

\* C15: once a dispatch whose write succeeded has finished, every report of
\* its batch is Completed; and at no time are the reports of one batch
\* partly Completed and partly Pending Upload.
BatchStatuses(d) == {reports[id].status : id \in BatchIds(disp[d])}

C15_WholeBatchCompleted ==
    \A d \in Dispatches :
        /\ disp[d].pc = "done" =>
              /\ BatchStatuses(d) = {COMPLETED}
              /\ disp[d].marked = BatchIds(disp[d])
        /\ Cardinality(BatchStatuses(d)) <= 1

C15_Witness ==
    \E d \in Dispatches :
        /\ disp[d].pc = "done"
        /\ Cardinality(BatchIds(disp[d])) >= 2
        /\ \E i \in DOMAIN written : written[i].by = d
        /\ \E e \in Dispatches : disp[e].pc = "failed" /\ disp[e].batch = disp[d].batch

\* C16: in every step, each report that is Completed after the step was in
\* the batch of a payload whose write had completed without error before the
\* step.
InWrittenPayload(id) ==
    \E i \in DOMAIN written :
        /\ \E k \in DOMAIN written[i].batch : written[i].batch[k] = id
        /\ Len(written[i].payload) >= 1

C16_CompletedOnlyAfterWrite ==
    [][\A id \in DOMAIN reports' :
          reports'[id].status = COMPLETED => InWrittenPayload(id)]_vars

C16_Witness ==
    /\ \E id \in DOMAIN reports : reports[id].status = COMPLETED /\ InWrittenPayload(id)
    /\ \E d \in Dispatches : TransportFailed(d)

\* C17: with host, username or password unset or blank after trimming, a
\* dispatch that reaches dispatch_csv_via_sftp fails with the configuration
\* error and without any network operation: no transport is opened, no
\* connection attempted, nothing written, no report status changed.
Blank(v) == v = None \/ Strip(v[1]) = <<>>

ConfigIncomplete == Blank(config.host) \/ Blank(config.username) \/ Blank(config.password)

C17_IncompleteConfigFailsBeforeNetwork ==
    ConfigIncomplete =>
        /\ written = <<>>
        /\ \A r \in DOMAIN reports : reports[r].status # COMPLETED
        /\ \A d \in Dispatches :
              /\ disp[d].pc \in {"start", "empty", "queried", "failed"}
              /\ disp[d].pc = "failed" => disp[d].raised = Some(CONFIG_ERROR)
              /\ disp[d].transport = "none"
              /\ disp[d].attempts = 0
              /\ disp[d].write_calls = 0
              /\ disp[d].marked = {}

C17_Witness ==
    /\ ConfigIncomplete
    /\ config.host # None /\ config.username # None
    /\ config.password # None /\ config.password[1] # <<>>
    /\ \E d \in Dispatches :
          /\ disp[d].pc = "failed"
          /\ disp[d].raised = Some(CONFIG_ERROR)
          /\ \A id \in BatchIds(disp[d]) : reports[id].status = PENDING_UPLOAD

\* C18: whenever dispatch_csv_via_sftp has returned or raised, the transport
\* it opened, if any, is closed.
C18_TransportClosedOnEveryExit ==
    \A d \in Dispatches : LeftSftp(d) => disp[d].transport # "open"

C18_Witness ==
    /\ \E d \in Dispatches :
          disp[d].pc = "failed" /\ disp[d].transport = "closed" /\ disp[d].write_calls = 0
    /\ \E d \in Dispatches :
          disp[d].pc = "done" /\ disp[d].transport = "closed"

\* C19: one dispatch makes at most one connection attempt and at most one
\* write; a dispatch that succeeded made exactly one write, of the payload
\* of its whole batch.
WritesBy(d) == {i \in DOMAIN written : written[i].by = d}

C19_NoInternalRetry ==
    \A d \in Dispatches :
        /\ disp[d].attempts <= 1
        /\ disp[d].write_calls <= 1
        /\ Cardinality(WritesBy(d)) <= disp[d].write_calls
        /\ disp[d].pc \in {"written", "done"} =>
              /\ Cardinality(WritesBy(d)) = 1
              /\ \A i \in WritesBy(d) :
                    /\ written[i].batch = disp[d].batch
                    /\ written[i].payload = disp[d].payload

C19_Witness ==
    /\ \E d \in Dispatches :
          /\ disp[d].pc = "done"
          /\ Len(disp[d].batch) >= 2
          /\ Cardinality(WritesBy(d)) = 1
    /\ \E d \in Dispatches :
          disp[d].pc = "failed" /\ disp[d].attempts = 1 /\ disp[d].write_calls = 1

\* C20: two dispatches that are in progress at the same time never hold the
\* same Pending Upload report in their payloads.
C20_AtMostOneOutstandingDispatch ==
    \A d \in Dispatches : \A e \in Dispatches \ {d} :
        (InProgress(d) /\ InProgress(e)) =>
            BatchIds(disp[d]) \cap BatchIds(disp[e]) = {}

----------------------------------------------------------------------------
(* Claims about dispatch and review together *)

\* the writes whose batch holds the report
WritesOf(id) ==
    {i \in DOMAIN written : \E k \in DOMAIN written[i].batch : written[i].batch[k] = id}

\* C21: when the dispatches run one after another and no dispatch fails, each
\* report is in the batch of at most one transmitted payload.
C21_TransmittedAtMostOnce ==
    (\A d \in Dispatches : disp[d].raised = None) =>
        \A id \in DOMAIN reports : Cardinality(WritesOf(id)) <= 1

\* C22: a failed dispatch leaves every report of its batch Pending Upload
\* (unless another dispatch completed it), the query of a dispatch selects
\* every report that is Pending Upload, and, when the settings are complete
\* and the dispatch is sent again after each failure, every report that is
\* Pending Upload is eventually in a written payload and Completed.
FailedLeavesBatchQueued ==
    \A d \in Dispatches :
        disp[d].pc = "failed" =>
            \A id \in BatchIds(disp[d]) :
                reports[id].status = PENDING_UPLOAD \/ MarkedByOther(d, id)

QuerySelectsAllQueued ==
    \A d \in Dispatches :
        (disp[d].pc = "start" /\ disp'[d].pc = "queried") =>
            BatchIds(disp'[d]) = PendingUploads(reports)

Queued(id) == id \in DOMAIN reports /\ reports[id].status = PENDING_UPLOAD

Transmitted(id) ==
    id \in DOMAIN reports /\ reports[id].status = COMPLETED /\ InWrittenPayload(id)

C22_FailedDispatchIsRetryable ==
    /\ []FailedLeavesBatchQueued
    /\ [][QuerySelectsAllQueued]_vars
    /\ \A id \in 1..MaxReports :
          (~ConfigIncomplete /\ Queued(id)) ~> Transmitted(id)

C22_Witness ==
    \E d \in Dispatches :
        /\ disp[d].retried
        /\ disp[d].pc = "done"
        /\ Len(disp[d].batch) >= 2
        /\ \A id \in BatchIds(disp[d]) : Transmitted(id)

----------------------------------------------------------------------------
(* Claims about the request handlers, checked under Spec *)

\* C23: once a report is Completed no step changes its status again.
C23_CompletedIsTerminal ==
    [][\A r \in DOMAIN reports :
          reports[r].status = COMPLETED => reports'[r].status = COMPLETED]_vars

\* the one change dispatch makes to a report: Pending Upload to Completed
DispatchedIn(r) ==
    /\ reports[r].status = PENDING_UPLOAD
    /\ reports'[r] = [reports[r] EXCEPT !.status = COMPLETED]

\* C26: a review changes neither the status nor any line of a report that is
\* in Draft, Pending Upload or Completed: such a report changes in no step
\* other than its dispatch.
C26_ReviewOnlyInPendingReview ==
    [][\A r \in DOMAIN reports :
          reports[r].status \in {DRAFT, PENDING_UPLOAD, COMPLETED} =>
              (reports'[r] = reports[r] \/ DispatchedIn(r))]_vars

\* C27: every report committed by new_expense has at least one line.
C27_CommittedReportHasLines ==
    \A r \in DOMAIN reports : reports[r].lines # <<>>

----------------------------------------------------------------------------
(* Claims about new_expense, checked under SubmitSpec *)

PostedForm == submitted[1].form

InvalidKinds == {"bad_date", "bad_amount", "bad_gl"}

SomeLineInvalid == \E i \in DOMAIN PostedForm : PostedForm[i] \in InvalidKinds

\* C28: a submission in which some line fails validation commits nothing:
\* the committed reports after the request are those before it.
C28_InvalidLineCommitsNothing ==
    [][(pc = "ready" /\ pc' = "done" /\ SomeLineInvalid) => reports' = reports]_vars

C28_Witness ==
    /\ pc = "done"
    /\ Len(PostedForm) >= 2
    /\ PostedForm[1] = "ok"
    /\ PostedForm[2] = "bad_gl"
    /\ reports \in ReportsBeforeSubmit

----------------------------------------------------------------------------
(* Claims about a dispatch among reviews, checked under ReviewDispatchSpec *)

\* the step is a step of a dispatch request
DispatchStep == disp' # disp

\* the request that commits in this step
Commits(d) == disp[d].pc = "written" /\ disp'[d].pc = "done"

\* C24: a step of a dispatch, successful or failed, leaves every line and
\* every report's rejection_comment as they are, and changes the status only
\* of reports in the batch of the dispatch that commits in that step.
C24_DispatchWritesOnlyStatus ==
    [][DispatchStep =>
          \A r \in DOMAIN reports :
              /\ reports'[r].lines = reports[r].lines
              /\ reports'[r].rejection_comment = reports[r].rejection_comment
              /\ reports'[r].status # reports[r].status =>
                    \E d \in Dispatches : Commits(d) /\ r \in BatchIds(disp[d])]_vars

C24_Witness ==
    /\ \E d \in Dispatches : disp[d].pc = "done" /\ disp[d].marked # {}
    /\ \E r \in DOMAIN reports :
          /\ reports[r].status = DRAFT
          /\ reports[r].rejection_comment = Some(REJECTED_NOTE)
          /\ \E i \in DOMAIN reports[r].lines :
                reports[r].lines[i].status = LINE_REJECTED

\* C29: the dispatch that commits sets to Completed exactly the reports of
\* the batch it read at its query, whose payload it wrote; every other report,
\* one that became Pending Upload after the query included, keeps its status.
C29_MarksExactlyWhatItRead ==
    [][\A d \in Dispatches :
          Commits(d) =>
              /\ disp'[d].marked = BatchIds(disp[d])
              /\ \A r \in DOMAIN reports :
                    IF r \in BatchIds(disp[d])
                    THEN /\ reports'[r].status = COMPLETED
                         /\ InWrittenPayload(r)
                    ELSE reports'[r] = reports[r]]_vars

C29_Witness ==
    \E d \in Dispatches :
        /\ disp[d].pc = "done"
        /\ disp[d].batch # <<>>
        /\ \E r \in DOMAIN reports \ BatchIds(disp[d]) :
              /\ reports[r].status = PENDING_UPLOAD
              /\ \A i \in DOMAIN written : r \notin
                    {written[i].batch[k] : k \in DOMAIN written[i].batch}

----------------------------------------------------------------------------
(* Claims about promote and demote, checked under RoleSpec *)

BeforePromotion(u) == users_before[u][1]

\* the user is promoted: super admin, approved, with the earlier role and
\* flag cached
Promoted(u) ==
    /\ users[u].role = SUPER_ADMIN
    /\ users[u].employee_approved = TRUE
    /\ users[u].admin_previous_role = Some(BeforePromotion(u).role)
    /\ users[u].admin_previous_employee_approved =
          Some(BeforePromotion(u).employee_approved)

\* the user is back at the role and flag held before promotion, cache cleared
Restored(u) ==
    /\ users[u].role = BeforePromotion(u).role
    /\ users[u].employee_approved = BeforePromotion(u).employee_approved
    /\ users[u].admin_previous_role = None
    /\ users[u].admin_previous_employee_approved = None

----------------------------------------------------------------------------
(* Claims about the remote file, checked under PathSpec *)

\* the batches sent on one date were written to one remote path
SameDateSamePath ==
    \A i, j \in DOMAIN written :
        written[i].today = written[j].today =>
            written[i].remote_path = written[j].remote_path

\* the path is made of the configured directory and the date, nothing else
PathOfDirectoryAndDate ==
    \A i \in DOMAIN written :
        written[i].remote_path =
            RemotePath(RemoteDir(config.directory), Filename(written[i].today))

\* a step in which a payload is written leaves the file holding that payload
WriteReplaces ==
    Len(written') > Len(written) =>
        LET last == written'[Len(written')]
        IN  /\ last.remote_path \in DOMAIN remote'
            /\ remote'[last.remote_path] = last.payload

\* the same, of the writes of a request during which no other request wrote:
\* as many files had been written when it opened its file as when it writes
UndisturbedWriteReplaces ==
    (/\ Len(written') > Len(written)
     /\ disp[written'[Len(written')].by].written_at_open = Len(written))
        => WriteReplaces

\* C30: the remote path of a dispatch depends only on the configured
\* directory and the date of dispatch: batches sent on the same date are
\* written to the same remote path, and the later successful write replaces
\* the file of the earlier batch, so that the file holds the payload written.
C30_LaterWriteReplaces ==
    /\ [](SameDateSamePath /\ PathOfDirectoryAndDate)
    /\ [][WriteReplaces]_vars

\* what holds of every request: the path is the same for the same date, and
\* a write of a request during which no other request wrote leaves the file
\* holding its payload, whatever an earlier batch put there
SameDateSamePathUndisturbedWriteReplaces ==
    /\ [](SameDateSamePath /\ PathOfDirectoryAndDate)
    /\ [][UndisturbedWriteReplaces]_vars

\* two batches of different size were written on one date, the shorter one
\* last, and the file holds the shorter one
ShorterBatchWrittenLast ==
    \E i, j \in DOMAIN written :
        /\ i < j /\ j = Len(written)
        /\ written[i].today = written[j].today
        /\ Len(written[j].payload) < Len(written[i].payload)
        /\ remote[written[j].remote_path] = written[j].payload
        /\ config.directory # None

====
